---- MODULE Spec2Model ----
(***************************************************************************)
(* VibeCode: the turn workflow.                                            *)
(*                                                                         *)
(* A tRPC call (projects.create or messages.create) gates on the credit    *)
(* limiter, persists the USER Message and sends a code-agent/run event.    *)
(* The Inngest function codeAgent serves the event: it creates a sandbox,  *)
(* loads the history and the latest Fragment's files, runs the agent       *)
(* network, and persists one ASSISTANT Message (save-result).              *)
(*                                                                         *)
(* Store: projects, messages (in commit order), fragments, usage.          *)
(* call[c] is the c-th tRPC call, turn[c] the codeAgent run its event      *)
(* started.                                                                *)
(***************************************************************************)
EXTENDS Integers, Sequences, FiniteSets, TLC

(* ---- bounds of the model ---- *)
MaxCalls == 2
MaxScript == 2
MaxUploads == 2
MaxFiles == 2
MaxDepth == 2
MaxPaths == 2

(* ---- constants of the program ---- *)
FREE_POINT == 1
PRO_POINTS == 100
GENERATION_COST == 1
maxIter == 15
maxImages == 3

Users == {"u1", "u2"}
NoUser == "anonymous"
Tiers == {"free", "pro"}

(* Texts are sequences of tokens: "_" is a whitespace character (blank,    *)
(* \n, \t), "^" a control character (NUL, U+0001-U+0008, U+000B, ...),     *)
(* every other token is printable text.                                    *)
(* A path is any string the agent passes (path: z.string()).               *)
CleanPath == <<"p1">>
ControlPath == <<"^", "p2">>
Paths == {CleanPath, ControlPath}

ControlChars == {"^"}
WhiteChars == {"_"}
RawContents == { <<"a", "_">>, <<"^", "b", "_">> }
ErrorBody == <<"Something went wrong. Please try again.">>
SummaryText == <<"<task_summary>">>

Calls == 1..MaxCalls

VARIABLES projects, messages, fragments, usage, tier, now, call, turn, ui,
          explorer

vars == <<projects, messages, fragments, usage, tier, now, call, turn, ui, explorer>>

(* the server's part of the state *)
server == <<projects, messages, fragments, usage, tier, now, call, turn>>

(* ---- the prompt form: hooks/useImageUpload.ts ---- *)
(* uploadedImages: the number of previews the form holds; uploads: the     *)
(* handleImageUpload calls in progress, each with the number of images its *)
(* render saw (seen) and the files it has still to process (left).         *)
NoUpload == [seen |-> 0, left |-> 0]

IdleForm == [uploadedImages |-> 0, uploads |-> [k \in 1..MaxUploads |-> NoUpload]]

(* ---- the file explorer: lib/utils.ts ---- *)
(* files: the paths of the file map shown, each the sequence of its parts  *)
(* (filePath.split('/')); items: the tree convertFilesToTreeItems returned *)
ClosedExplorer == [files |-> {}, converted |-> FALSE, items |-> <<>>]

(* ---- file maps ---- *)
EmptyMap == [p \in {} |-> <<>>]

Overlay(m, p, c) == [q \in (DOMAIN m) \cup {p} |-> IF q = p THEN c ELSE m[q]]

Restrict(m, S) == [q \in (DOMAIN m) \cap S |-> m[q]]

(* ---- sanitizeContent ---- *)
StripControl(s) == SelectSeq(s, LAMBDA ch : ch \notin ControlChars)

RECURSIVE TrimStart(_)
TrimStart(s) ==
    IF s # <<>> /\ Head(s) \in WhiteChars THEN TrimStart(Tail(s)) ELSE s

RECURSIVE TrimEnd(_)
TrimEnd(s) ==
    IF s # <<>> /\ s[Len(s)] \in WhiteChars
    THEN TrimEnd(SubSeq(s, 1, Len(s) - 1))
    ELSE s

Trim(s) == TrimEnd(TrimStart(s))

sanitizeContent(content) ==
    IF content = <<>> THEN content ELSE Trim(StripControl(content))

(* ---- the store ---- *)
MissingProject == 0

Message(id, projectId, role, type, content, createdAt, t) ==
    [id |-> id, projectId |-> projectId, role |-> role, type |-> type,
     content |-> content, createdAt |-> createdAt, turn |-> t]

(* prisma.message.create: the row is appended in commit order and stamped  *)
(* with the clock's current reading (createdAt DateTime @default(now())).  *)
InsertMessage(projectId, role, type, content, t) ==
    Append(messages,
           Message(Len(messages) + 1, projectId, role, type, content, now, t))

MessageIds(projectId) ==
    {i \in 1..Len(messages) : messages[i].projectId = projectId}

ProjectIds == {pr.id : pr \in projects}

Owner(projectId) == (CHOOSE pr \in projects : pr.id = projectId).userId

(* a lookup by the project's id alone *)
OwnsAny(u, projectId) == \E pr \in projects : pr.id = projectId

(* where: {id: projectId, userId: ctx.auth.userId} *)
Owns(u, projectId) == \E pr \in projects : pr.id = projectId /\ pr.userId = u

FragmentOf(messageId) == {f \in fragments : f.messageId = messageId}

(* Every sequence of the ids in S sorted by createdAt ascending; rows with  *)
(* the same createdAt come in an order the database chooses.                *)
RECURSIVE OrderedAsc(_)
OrderedAsc(S) ==
    IF S = {} THEN {<<>>}
    ELSE UNION {{<<x>> \o s : s \in OrderedAsc(S \ {x})} :
                x \in {y \in S : \A z \in S :
                          messages[y].createdAt <= messages[z].createdAt}}

RECURSIVE OrderedDesc(_)
OrderedDesc(S) ==
    IF S = {} THEN {<<>>}
    ELSE UNION {{<<x>> \o s : s \in OrderedDesc(S \ {x})} :
                x \in {y \in S : \A z \in S :
                          messages[y].createdAt >= messages[z].createdAt}}

Reverse(s) == [i \in 1..Len(s) |-> s[Len(s) + 1 - i]]

(* ---- credits: lib/usage.ts ---- *)
(* getUsageTracker: the quota of the caller's tier at the time of the call *)
(* a tracker that is built with the free quota for every caller *)
PointsFree(u) == FREE_POINT

Points(u) == IF tier[u] = "pro" THEN PRO_POINTS ELSE FREE_POINT

(* usageTracker.consume(userId, GENERATION_COST): the limiter adds the     *)
(* cost to the user's row and rejects when the sum exceeds the quota (a    *)
(* rejected attempt is counted too). The call is one step of the model:    *)
(* the limiter's own reads and writes are not part of the repository.      *)
(* a limiter that clears the user's row when the quota is used up *)
ConsumedRestarting(u) ==
    IF usage[u] >= Points(u) THEN 0 ELSE usage[u] + GENERATION_COST

Consumed(u) == usage[u] + GENERATION_COST

Rejected(u) == Consumed(u) > Points(u)

(* ---- tRPC calls ---- *)
(* The steps of a run that follow network.run touch nothing another run or *)
(* call can see before save-result commits, and neither do the ownership   *)
(* lookup of a call (projects are never removed or handed over) and its    *)
(* inngest.send. They are taken without interleaving: nothing else is      *)
(* scheduled while a run or a call is at one of them.                      *)
TailSteps == {"generate", "get-sandbox-url", "save-result"}

UrgentSteps == {"find", "send"}

NoTail ==
    /\ \A t \in Calls : turn[t].pc \notin TailSteps
    /\ \A c \in Calls : call[c].pc \notin UrgentSteps

IdleCall ==
    [op |-> "none", user |-> NoUser, projectId |-> MissingProject,
     pc |-> "idle", outcome |-> "", plan |-> "none", consumed |-> FALSE]

IdleTurn ==
    [pc |-> "none", projectId |-> MissingProject, sandbox |-> EmptyMap,
     history |-> <<>>, base |-> 0, files |-> EmptyMap, written |-> {},
     summary |-> <<>>, summaryAt |-> 0, iters |-> 0,
     title |-> <<>>, response |-> <<>>]

(* a run that returned or failed: its working state is gone *)
Ended(t, pc) == [IdleTurn EXCEPT !.pc = pc, !.projectId = turn[t].projectId]

Return(c, code) == [call EXCEPT ![c].pc = "returned", ![c].outcome = code]

(* a catch block that swallows the limiter's rejection *)
AfterGateSwallowed(resolved) == "write"

(* The catch block after consumeCredits rethrows a TRPCError, so the call  *)
(* goes on to the Message write only when the limiter resolved.            *)
AfterGate(resolved) == IF resolved THEN "write" ELSE "returned"

(* a catch block that answers every failure of consumeCredits alike *)
GateCodeSame(isError) == "BAD_REQUEST"

(* the catch block after consumeCredits: an Error (the limiter's storage   *)
(* failed) and the limiter's rejection for the quota get different codes   *)
GateCode(isError) == IF isError THEN "BAD_REQUEST" ELSE "TOO_MANY_REQUESTS"

(* A call arrives and passes through the isAuthed middleware. *)
isAuthed(c) ==
    /\ NoTail
    /\ call[c].pc = "idle"
    /\ c > 1 => call[c - 1].pc # "idle"
    /\ \E u \in Users \cup {NoUser},
          op \in {"projects.create", "messages.create"},
          p \in ProjectIds \cup {MissingProject} :
         /\ op = "projects.create" => p = MissingProject
         /\ LET arrived == [call[c] EXCEPT !.op = op, !.user = u, !.projectId = p]
            IN  call' = [call EXCEPT ![c] =
                   IF u = NoUser
                   THEN [arrived EXCEPT !.pc = "returned", !.outcome = "UNAUTHORIZED"]
                   ELSE [arrived EXCEPT !.pc = IF op = "messages.create"
                                               THEN "find" ELSE "gate"]]
    /\ UNCHANGED <<projects, messages, fragments, usage, tier, now, turn, ui, explorer>>

(* messages.create step 1: prisma.project.findUnique({id, userId}) *)
FindProject(c) ==
    /\ call[c].pc = "find"
    /\ IF Owns(call[c].user, call[c].projectId)
       THEN call' = [call EXCEPT ![c].pc = "gate"]
       ELSE call' = Return(c, "NOT_FOUND")
    /\ UNCHANGED <<projects, messages, fragments, usage, tier, now, turn, ui, explorer>>

(* consumeCredits resolves or rejects with the limiter's result (not an    *)
(* Error); plan is the tier getUsageTracker read for this call             *)
ConsumeCredits(c) ==
    /\ NoTail
    /\ call[c].pc = "gate"
    /\ LET u == call[c].user
           next == AfterGate(~Rejected(u))
       IN  /\ usage' = [usage EXCEPT ![u] = Consumed(u)]
           /\ call' = [call EXCEPT ![c].pc = next,
                                   ![c].plan = tier[u],
                                   ![c].consumed = ~Rejected(u),
                                   ![c].outcome = IF next = "returned"
                                                  THEN GateCode(FALSE) ELSE ""]
    /\ UNCHANGED <<projects, messages, fragments, tier, now, turn, ui, explorer>>

(* consumeCredits throws an Error (the limiter's storage failed) *)
ConsumeCreditsError(c) ==
    /\ NoTail
    /\ call[c].pc = "gate"
    /\ call' = [call EXCEPT ![c].pc = AfterGate(FALSE),
                            ![c].outcome = IF AfterGate(FALSE) = "returned"
                                           THEN GateCode(TRUE) ELSE ""]
    /\ UNCHANGED <<projects, messages, fragments, usage, tier, now, turn, ui, explorer>>

(* messages.create step 3: the USER Message, type RESULT, no Fragment *)
CreateMessage(c) ==
    /\ NoTail
    /\ call[c].pc = "write"
    /\ call[c].op = "messages.create"
    /\ messages' = InsertMessage(call[c].projectId, "USER", "RESULT", <<"a">>, c)
    /\ call' = [call EXCEPT ![c].pc = "send"]
    /\ UNCHANGED <<projects, fragments, usage, tier, now, turn, ui, explorer>>

(* projects.create step 3: the Project with its first USER Message *)
CreateProject(c) ==
    /\ NoTail
    /\ call[c].pc = "write"
    /\ call[c].op = "projects.create"
    /\ LET id == Cardinality(projects) + 1
       IN  /\ projects' = projects \cup {[id |-> id, userId |-> call[c].user]}
           /\ messages' = InsertMessage(id, "USER", "RESULT", <<"a">>, c)
           /\ call' = [call EXCEPT ![c].pc = "send", ![c].projectId = id]
    /\ UNCHANGED <<fragments, usage, tier, now, turn, ui, explorer>>

(* step 4: inngest.send({name: "code-agent/run", ...}) *)
SendEvent(c) ==
    /\ call[c].pc = "send"
    /\ turn' = [turn EXCEPT ![c] = [IdleTurn EXCEPT !.pc = "get-sandbox-id",
                                                    !.projectId = call[c].projectId]]
    /\ call' = Return(c, "OK")
    /\ UNCHANGED <<projects, messages, fragments, usage, tier, now, ui, explorer>>

(* the prisma write or inngest.send throws: the procedure fails *)
CallFails(c) ==
    /\ NoTail \/ call[c].pc \in UrgentSteps
    /\ call[c].pc \in {"write", "send"}
    /\ call' = Return(c, "INTERNAL_SERVER_ERROR")
    /\ UNCHANGED <<projects, messages, fragments, usage, tier, now, turn, ui, explorer>>

(* messages.getMany, a query: the answers it can give user u for project p *)
(* in this state; the Messages of the caller's project with their          *)
(* Fragments, orderBy createdAt asc                                        *)
Row(i) ==
    [id |-> i, role |-> messages[i].role, type |-> messages[i].type,
     fragment |-> FragmentOf(i) # {}]

getMany(u, p) ==
    {[k \in 1..Len(s) |-> Row(s[k])] :
        s \in OrderedAsc({i \in MessageIds(p) : Owns(u, p)})}

(* the clock advances; only the order of the timestamps matters, so a tick *)
(* is taken only after a row was stamped with the current reading          *)
Tick ==
    /\ NoTail
    /\ \E i \in 1..Len(messages) : messages[i].createdAt = now
    /\ now' = now + 1
    /\ UNCHANGED <<projects, messages, fragments, usage, tier, call, turn, ui, explorer>>

(* ---- inngest/functions.ts: codeAgent ---- *)
ProjectFragments(projectId) ==
    {f \in fragments : messages[f.messageId].projectId = projectId}

(* prisma.fragment.findFirst({where: {message: {projectId}},               *)
(*                            orderBy: {createdAt: "desc"}})               *)
(* id is the Fragment's Message (0: no Fragment was found).                *)
LatestFragments(projectId) ==
    IF ProjectFragments(projectId) = {}
    THEN {[id |-> 0, files |-> EmptyMap]}
    ELSE {[id |-> f.messageId, files |-> f.files] :
            f \in {g \in ProjectFragments(projectId) :
                     \A h \in ProjectFragments(projectId) :
                        g.createdAt >= h.createdAt}}

(* the FileMaps getExistingFiles(projectId) can return in this state *)
getExistingFiles(projectId) == {b.files : b \in LatestFragments(projectId)}

(* a state created with files: {} *)
InitialFilesEmpty(existingFiles) == EmptyMap

(* createState({summary: "", files: existingFiles}, ...) *)
InitialFiles(existingFiles) == existingFiles

(* createOrUpdateFiles: the files of one call, in order *)
File(path, content) == [path |-> path, content |-> content]

FileLists ==
    { <<File(CleanPath, <<"a", "_">>)>>,
      <<File(ControlPath, <<"^", "b", "_">>)>>,
      <<File(CleanPath, <<"a", "_">>), File(ControlPath, <<"^", "b", "_">>)>> }

(* What one agent iteration does: a createOrUpdateFiles call whose         *)
(* failAt-th sandbox write throws (0: none), a terminal or readFiles call, *)
(* a text answer with <task_summary>, or a text answer without it.         *)
(* mirrored: the entries the failed step put into the map it shares with   *)
(* state.files before it threw are still there when the agent goes on     *)
(* (they are when the run continues in the same execution, they are not    *)
(* when the function is replayed from its memoised steps).                 *)
Moves ==
    {mv \in [kind : {"createOrUpdateFiles"}, files : FileLists,
              failAt : 0..2, mirrored : BOOLEAN] :
        /\ mv.failAt <= Len(mv.files)
        /\ mv.mirrored => mv.failAt >= 2}
    \cup {[kind |-> "tool", files |-> <<>>, failAt |-> k, mirrored |-> FALSE] :
             k \in 0..1}
    \cup {[kind |-> "summary", files |-> <<>>, failAt |-> 0, mirrored |-> FALSE],
          [kind |-> "text", files |-> <<>>, failAt |-> 0, mirrored |-> FALSE]}

TextMove == [kind |-> "text", files |-> <<>>, failAt |-> 0, mirrored |-> FALSE]

Scripts == UNION {[1..n -> Moves] : n \in 0..MaxScript}

RECURSIVE WriteAll(_, _, _)
WriteAll(m, fs, n) ==
    IF n = 0 THEN m
    ELSE Overlay(WriteAll(m, fs, n - 1), fs[n].path, fs[n].content)

(* a handler that starts from updatedFiles = {} instead of state.files *)
createOrUpdateFilesFresh(st, files, failAt, mirrored) ==
    IF failAt = 0
    THEN [st EXCEPT !.sandbox = WriteAll(st.sandbox, files, Len(files)),
                    !.files = WriteAll(EmptyMap, files, Len(files)),
                    !.written = st.written \cup {files[n].path : n \in 1..Len(files)}]
    ELSE [st EXCEPT !.sandbox = WriteAll(st.sandbox, files, failAt - 1)]

(* the createOrUpdateFiles handler: the step's writes reach the sandbox up *)
(* to the one that throws, each followed by its entry in updatedFiles; the *)
(* map the step returns replaces state.files when the step returned; when  *)
(* it threw, state.files has the entries made before the throw or not      *)
(* (mirrored)                                                              *)
createOrUpdateFiles(st, files, failAt, mirrored) ==
    LET n == IF failAt = 0 THEN Len(files) ELSE failAt - 1
    IN  IF failAt = 0 \/ mirrored
        THEN [st EXCEPT !.sandbox = WriteAll(st.sandbox, files, n),
                        !.files = WriteAll(st.files, files, n),
                        !.written = st.written \cup {files[k].path : k \in 1..n}]
        ELSE [st EXCEPT !.sandbox = WriteAll(st.sandbox, files, n)]

(* lifecycle.onResponse: a text with the marker becomes state.summary      *)
(* (summaryAt: the agent call that recorded it)                            *)
onResponse(st, mv) ==
    IF mv.kind = "summary"
    THEN [st EXCEPT !.summary = SummaryText, !.summaryAt = st.iters + 1]
    ELSE st

AgentIteration(st, mv) ==
    LET called == IF mv.kind = "createOrUpdateFiles"
                  THEN createOrUpdateFiles(st, mv.files, mv.failAt, mv.mirrored)
                  ELSE st
    IN  [onResponse(called, mv) EXCEPT !.iters = st.iters + 1]

(* a router that always returns the agent *)
RECURSIVE RunNetworkNoRouter(_, _)
RunNetworkNoRouter(st, script) ==
    IF st.iters >= maxIter
    THEN st
    ELSE RunNetworkNoRouter(AgentIteration(st, IF st.iters < Len(script)
                                               THEN script[st.iters + 1]
                                               ELSE TextMove),
                            script)

(* createNetwork({maxIter: 15, router}): the router returns no agent once  *)
(* state.summary is set; the network stops after maxIter agent calls.      *)
(* After the script the agent answers with text and no marker.             *)
RECURSIVE RunNetwork(_, _)
RunNetwork(st, script) ==
    IF st.summary # <<>> \/ st.iters >= maxIter
    THEN st
    ELSE RunNetwork(AgentIteration(st, IF st.iters < Len(script)
                                       THEN script[st.iters + 1]
                                       ELSE TextMove),
                    script)

(* a check that forgets the FileMap *)
hasErrorSummaryOnly(summary, files) == summary = <<>>

hasError(summary, files) == summary = <<>> \/ DOMAIN files = {}

SanitizedFiles(files) == [p \in DOMAIN files |-> sanitizeContent(files[p])]

FragmentRow(t, messageId) ==
    [messageId |-> messageId, createdAt |-> now,
     title |-> sanitizeContent(turn[t].title),
     files |-> SanitizedFiles(turn[t].files),
     base |-> turn[t].base, written |-> turn[t].written]

(* a save-result that writes the Fragment in the error branch too *)
SavedFragmentsAlways(t, messageId, error) == {FragmentRow(t, messageId)}

(* a save-result whose Message is written without the nested Fragment *)
SavedFragmentsLater(t, messageId, error) == {}

(* the Fragment rows save-result writes with its Message *)
SavedFragments(t, messageId, error) ==
    IF error
    THEN {}
    ELSE {FragmentRow(t, messageId)}

(* step get-sandbox-id: a new sandbox, seeded with the latest Fragment's   *)
(* files; a file whose copy throws is logged and skipped                   *)
GetSandboxId(t) ==
    /\ NoTail
    /\ turn[t].pc = "get-sandbox-id"
    /\ \E b \in LatestFragments(turn[t].projectId) :
       \E skipped \in SUBSET (DOMAIN b.files) :
         turn' = [turn EXCEPT ![t].pc = "get-previous-messages",
                              ![t].sandbox = Restrict(b.files, (DOMAIN b.files) \ skipped)]
    /\ UNCHANGED <<projects, messages, fragments, usage, tier, now, call, ui, explorer>>

(* step get-previous-messages: findMany orderBy createdAt desc, reversed *)
GetPreviousMessages(t) ==
    /\ NoTail
    /\ turn[t].pc = "get-previous-messages"
    /\ \E s \in OrderedDesc(MessageIds(turn[t].projectId)) :
         turn' = [turn EXCEPT ![t].pc = "get-existing-files",
                              ![t].history = Reverse(s)]
    /\ UNCHANGED <<projects, messages, fragments, usage, tier, now, call, ui, explorer>>

(* step get-existing-files and createState *)
GetExistingFiles(t) ==
    /\ NoTail
    /\ turn[t].pc = "get-existing-files"
    /\ \E b \in LatestFragments(turn[t].projectId) :
         turn' = [turn EXCEPT ![t].pc = "network",
                              ![t].base = b.id,
                              ![t].files = InitialFiles(b.files)]
    /\ UNCHANGED <<projects, messages, fragments, usage, tier, now, call, ui, explorer>>

(* network.run(userInput, {state}) *)
Network(t) ==
    /\ NoTail
    /\ turn[t].pc = "network"
    /\ \E script \in Scripts :
         turn' = [turn EXCEPT ![t] =
                    [RunNetwork(turn[t], script) EXCEPT !.pc = "generate",
                                                        !.history = <<>>,
                                                        !.sandbox = EmptyMap]]
    /\ UNCHANGED <<projects, messages, fragments, usage, tier, now, call, ui, explorer>>

(* The first message of a generator's output: a text message, or a        *)
(* message of another type.                                                *)
TextOutput(txt) == [type |-> "text", content |-> txt]

OtherOutput == [type |-> "tool_call", content |-> <<>>]

(* the outputs of the two generators in one run: title, response *)
Outputs ==
    { <<TextOutput(<<"_", "^", "b">>), OtherOutput>>,
      <<OtherOutput, TextOutput(<<"_", "^", "b">>)>> }

(* parseAgentOutput(value), output = value[0] *)
parseAgentOutput(output) ==
    IF output.type # "text" THEN <<"Fragment">> ELSE output.content

(* fragmentTitleGenerator.run and responseGenerator.run; title and         *)
(* response hold what save-result parses from their outputs                *)
Generate(t) ==
    /\ turn[t].pc = "generate"
    /\ \E out \in Outputs :
         LET fragmentTitleOutput == out[1]
             responseOutput == out[2]
         IN  turn' = [turn EXCEPT ![t].pc = "get-sandbox-url",
                                  ![t].title = parseAgentOutput(fragmentTitleOutput),
                                  ![t].response = parseAgentOutput(responseOutput)]
    /\ UNCHANGED <<projects, messages, fragments, usage, tier, now, call, ui, explorer>>

(* step get-sandbox-url *)
GetSandboxUrl(t) ==
    /\ turn[t].pc = "get-sandbox-url"
    /\ turn' = [turn EXCEPT ![t].pc = "save-result"]
    /\ UNCHANGED <<projects, messages, fragments, usage, tier, now, call, ui, explorer>>

(* step save-result: one prisma.message.create, with the nested Fragment   *)
(* create in the success branch                                            *)
SaveResult(t) ==
    /\ turn[t].pc = "save-result"
    /\ LET error == hasError(turn[t].summary, turn[t].files)
       IN  /\ messages' =
                 IF error
                 THEN InsertMessage(turn[t].projectId, "ASSISTANT", "ERROR", ErrorBody, t)
                 ELSE InsertMessage(turn[t].projectId, "ASSISTANT", "RESULT",
                                    sanitizeContent(turn[t].response), t)
           /\ fragments' = fragments \cup SavedFragments(t, Len(messages) + 1, error)
    /\ turn' = [turn EXCEPT ![t] = Ended(t, "done")]
    /\ UNCHANGED <<projects, usage, tier, now, call, ui, explorer>>

(* A step, or a call made between steps, throws on every attempt: the run  *)
(* of the function fails and nothing after it is executed.                 *)
StepFails(t) ==
    /\ NoTail \/ turn[t].pc \in TailSteps
    /\ turn[t].pc \in {"get-sandbox-id", "get-previous-messages", "get-existing-files",
                       "network", "generate", "get-sandbox-url", "save-result"}
    /\ turn' = [turn EXCEPT ![t] = Ended(t, "failed")]
    /\ UNCHANGED <<projects, messages, fragments, usage, tier, now, call, ui, explorer>>

(* ---- the specification ---- *)
(* The store at the start: empty, or one project of u1 whose first turn    *)
(* succeeded with the file p1.                                             *)
InitialStores ==
    { [projects |-> {}, messages |-> <<>>, fragments |-> {}, now |-> 1],
      [projects |-> {[id |-> 1, userId |-> "u1"]},
       messages |-> << Message(1, 1, "USER", "RESULT", <<"a">>, 1, 0),
                       Message(2, 1, "ASSISTANT", "RESULT", <<"a">>, 2, 0) >>,
       fragments |-> {[messageId |-> 2, createdAt |-> 2, title |-> <<"b">>,
                       files |-> [p \in {CleanPath} |-> <<"b">>],
                       base |-> 0, written |-> {CleanPath}]},
       now |-> 3] }

Init ==
    /\ \E st \in InitialStores :
         /\ projects = st.projects
         /\ messages = st.messages
         /\ fragments = st.fragments
         /\ now = st.now
    /\ usage = [u \in Users |-> 0]
    /\ tier = [u \in Users |-> IF u = "u1" THEN "pro" ELSE "free"]
    /\ call = [c \in Calls |-> IdleCall]
    /\ turn = [c \in Calls |-> IdleTurn]
    /\ ui = IdleForm
    /\ explorer = ClosedExplorer

Next ==
    \/ \E c \in Calls : isAuthed(c)
    \/ \E c \in Calls : FindProject(c)
    \/ \E c \in Calls : ConsumeCredits(c)
    \/ \E c \in Calls : ConsumeCreditsError(c)
    \/ \E c \in Calls : CreateMessage(c)
    \/ \E c \in Calls : CreateProject(c)
    \/ \E c \in Calls : SendEvent(c)
    \/ \E c \in Calls : CallFails(c)
    \/ Tick
    \/ \E t \in Calls : GetSandboxId(t)
    \/ \E t \in Calls : GetPreviousMessages(t)
    \/ \E t \in Calls : GetExistingFiles(t)
    \/ \E t \in Calls : Network(t)
    \/ \E t \in Calls : Generate(t)
    \/ \E t \in Calls : GetSandboxUrl(t)
    \/ \E t \in Calls : SaveResult(t)
    \/ \E t \in Calls : StepFails(t)

Spec == Init /\ [][Next]_vars

(* ---- the credit gate over a period ---- *)
(* The user's plan changes (has({plan: "pro"}) answers differently from    *)
(* now on).                                                                *)
SetTier(u) ==
    /\ NoTail
    /\ \E t \in Tiers \ {tier[u]} : tier' = [tier EXCEPT ![u] = t]
    /\ UNCHANGED <<projects, messages, fragments, usage, now, call, turn, ui, explorer>>

(* the credits a user may have consumed earlier in the period *)
StartUsages == {0, FREE_POINT, FREE_POINT + 1, PRO_POINTS - 1, PRO_POINTS}

InitQuota ==
    /\ \E st \in InitialStores :
         /\ projects = st.projects
         /\ messages = st.messages
         /\ fragments = st.fragments
         /\ now = st.now
    /\ usage \in [Users -> StartUsages]
    /\ tier \in [Users -> Tiers]
    /\ call = [c \in Calls |-> IdleCall]
    /\ turn = [c \in Calls |-> IdleTurn]
    /\ ui = IdleForm
    /\ explorer = ClosedExplorer

NextQuota ==
    \/ \E c \in Calls : isAuthed(c)
    \/ \E c \in Calls : FindProject(c)
    \/ \E c \in Calls : ConsumeCredits(c)
    \/ \E c \in Calls : ConsumeCreditsError(c)
    \/ \E c \in Calls : CreateMessage(c)
    \/ \E c \in Calls : CreateProject(c)
    \/ \E c \in Calls : SendEvent(c)
    \/ \E c \in Calls : CallFails(c)
    \/ \E u \in Users : SetTier(u)

SpecQuota == InitQuota /\ [][NextQuota]_vars

(* ---- the agent loop, one agent call at a time ---- *)
(* The router hands the state to the code agent again: one inference with  *)
(* its tool call (the step of RunNetwork).                                 *)
AgentStep(t) ==
    /\ turn[t].pc = "network"
    /\ turn[t].summary = <<>>
    /\ turn[t].iters < maxIter
    /\ \E mv \in Moves : turn' = [turn EXCEPT ![t] = AgentIteration(turn[t], mv)]
    /\ UNCHANGED <<projects, messages, fragments, usage, tier, now, call, ui, explorer>>

(* Turn 1 is about to call network.run: on a new project (projects.create) *)
(* or on the project whose first turn succeeded (messages.create); its     *)
(* sandbox holds every file of the FileMap it starts from.                 *)
LoopStarts ==
    { [op |-> "projects.create", messages |-> <<>>, fragments |-> {},
       base |-> 0, files |-> EmptyMap, now |-> 1],
      [op |-> "messages.create",
       messages |-> << Message(1, 1, "USER", "RESULT", <<"a">>, 1, 0),
                       Message(2, 1, "ASSISTANT", "RESULT", <<"a">>, 2, 0) >>,
       fragments |-> {[messageId |-> 2, createdAt |-> 2, title |-> <<"b">>,
                       files |-> [p \in {CleanPath} |-> <<"b">>],
                       base |-> 0, written |-> {CleanPath}]},
       base |-> 2, files |-> [p \in {CleanPath} |-> <<"b">>], now |-> 3] }

InitLoop ==
    \E st \in LoopStarts :
        /\ projects = {[id |-> 1, userId |-> "u1"]}
        /\ messages = Append(st.messages,
                             Message(Len(st.messages) + 1, 1, "USER", "RESULT",
                                     <<"a">>, st.now, 1))
        /\ fragments = st.fragments
        /\ now = st.now + 1
        /\ usage = [u \in Users |-> IF u = "u1" THEN GENERATION_COST ELSE 0]
        /\ tier = [u \in Users |-> IF u = "u1" THEN "pro" ELSE "free"]
        /\ call = [c \in Calls |->
                     IF c = 1
                     THEN [IdleCall EXCEPT !.op = st.op, !.user = "u1",
                                           !.projectId = 1, !.pc = "returned",
                                           !.outcome = "OK", !.plan = "pro",
                                           !.consumed = TRUE]
                     ELSE IdleCall]
        /\ turn = [c \in Calls |->
                     IF c = 1
                     THEN [IdleTurn EXCEPT !.pc = "network", !.projectId = 1,
                                           !.sandbox = st.files,
                                           !.history = [k \in 1..(Len(st.messages) + 1) |-> k],
                                           !.base = st.base, !.files = st.files]
                     ELSE IdleTurn]
        /\ ui = IdleForm
        /\ explorer = ClosedExplorer

NextLoop == \E t \in Calls : AgentStep(t)

SpecLoop == InitLoop /\ [][NextLoop]_vars

(* ---- the prompt form ---- *)
Min(a, b) == IF a <= b THEN a ELSE b

(* addImageDirectly, called from a render that saw `seen` images: the test *)
(* reads that render's uploadedImages, the update is                       *)
(* setUploadedImages(prev => [...prev, previewUrl])                        *)
addImageDirectly(uploadedImages, seen) ==
    IF seen >= maxImages THEN uploadedImages ELSE uploadedImages + 1

(* handleImageUpload up to its first file: n files were selected *)
handleImageUpload(k) ==
    /\ ui.uploads[k] = NoUpload
    /\ ui.uploadedImages < maxImages
    /\ \E n \in 1..MaxFiles :
         ui' = [ui EXCEPT !.uploads[k] =
                  [seen |-> ui.uploadedImages,
                   left |-> Min(n, maxImages - ui.uploadedImages)]]
    /\ UNCHANGED <<server, explorer>>

(* handleImageUpload, one file of the loop: it is skipped (not an image,   *)
(* too large, compression failed) or, after the compression it awaits,     *)
(* handed to onImageAdd, the handleImageAdd of the render of the selection *)
onImageAdd(k) ==
    /\ ui.uploads[k].left > 0
    /\ \E skipped \in BOOLEAN :
         LET left == ui.uploads[k].left - 1
         IN  ui' = [ui EXCEPT
                      !.uploadedImages =
                          IF skipped THEN @
                          ELSE addImageDirectly(@, ui.uploads[k].seen),
                      !.uploads[k] =
                          IF left = 0 THEN NoUpload ELSE [@ EXCEPT !.left = left]]
    /\ UNCHANGED <<server, explorer>>

(* useImagePaste.handlePaste with n images in the clipboard: all of it     *)
(* runs in the current render                                              *)
handlePaste ==
    /\ ui.uploadedImages < maxImages
    /\ \E n \in 1..MaxFiles :
         ui' = [ui EXCEPT !.uploadedImages =
                  @ + Min(n, maxImages - ui.uploadedImages)]
    /\ UNCHANGED <<server, explorer>>

removeImage ==
    /\ ui.uploadedImages > 0
    /\ ui' = [ui EXCEPT !.uploadedImages = @ - 1]
    /\ UNCHANGED <<server, explorer>>

resetImages ==
    /\ ui.uploadedImages > 0
    /\ ui' = [ui EXCEPT !.uploadedImages = 0]
    /\ UNCHANGED <<server, explorer>>

InitImages ==
    /\ projects = {}
    /\ messages = <<>>
    /\ fragments = {}
    /\ now = 1
    /\ usage = [u \in Users |-> 0]
    /\ tier = [u \in Users |-> IF u = "u1" THEN "pro" ELSE "free"]
    /\ call = [c \in Calls |-> IdleCall]
    /\ turn = [c \in Calls |-> IdleTurn]
    /\ ui = IdleForm
    /\ explorer = ClosedExplorer

NextImages ==
    \/ \E k \in 1..MaxUploads : handleImageUpload(k)
    \/ \E k \in 1..MaxUploads : onImageAdd(k)
    \/ handlePaste
    \/ removeImage
    \/ resetImages

SpecImages == InitImages /\ [][NextImages]_vars

(* ---- the file tree: lib/utils.ts convertFilesToTreeItems ---- *)
(* the names of path parts, in the order of String.prototype.sort; none is *)
(* a prefix of another, so paths sort as the sequences of their parts      *)
Names == <<"Button.tsx", "README.md", "src">>

NameRank(n) == CHOOSE i \in 1..Len(Names) : Names[i] = n

(* filePath.split('/') of the keys a file map can hold *)
TreePaths ==
    UNION {[1..d -> {Names[i] : i \in 1..Len(Names)}] : d \in 1..MaxDepth}

FileMaps == {fs \in SUBSET TreePaths : Cardinality(fs) <= MaxPaths}

(* a < b in the order of sort() on the joined paths *)
RECURSIVE PathBefore(_, _)
PathBefore(a, b) ==
    IF a = <<>> THEN b # <<>>
    ELSE IF b = <<>> THEN FALSE
    ELSE IF Head(a) = Head(b) THEN PathBefore(Tail(a), Tail(b))
    ELSE NameRank(Head(a)) < NameRank(Head(b))

(* Object.keys(files).sort() *)
sortedPaths(files) ==
    CHOOSE s \in [1..Cardinality(files) -> files] :
        /\ \A i, j \in 1..Cardinality(files) : i < j => PathBefore(s[i], s[j])

(* a TreeNode is the sequence of its entries in insertion order; an entry  *)
(* is null (a file) or a TreeNode (a folder)                               *)
FileEntry(key) == [key |-> key, isNull |-> TRUE, node |-> <<>>]

FolderEntry(key, node) == [key |-> key, isNull |-> FALSE, node |-> node]

(* assigning a key of an object keeps the place of a key it already has *)
SetEntry(node, entry) ==
    IF \E i \in 1..Len(node) : node[i].key = entry.key
    THEN [i \in 1..Len(node) |->
            IF node[i].key = entry.key THEN entry ELSE node[i]]
    ELSE Append(node, entry)

(* one pass of the loop over sortedPaths, from the node `current`: a part  *)
(* whose entry is missing or null gets a new empty folder                  *)
RECURSIVE AddPath(_, _)
AddPath(current, parts) ==
    IF Len(parts) = 1 THEN SetEntry(current, FileEntry(parts[1]))
    ELSE LET part == Head(parts)
             found == {i \in 1..Len(current) :
                          current[i].key = part /\ ~current[i].isNull}
             below == IF found = {} THEN <<>>
                      ELSE current[CHOOSE i \in found : TRUE].node
         IN  SetEntry(current, FolderEntry(part, AddPath(below, Tail(parts))))

RECURSIVE BuildTree(_, _)
BuildTree(tree, paths) ==
    IF paths = <<>> THEN tree
    ELSE BuildTree(AddPath(tree, Head(paths)), Tail(paths))

(* a TreeItem: a string, or the array [name, ...items] *)
FileItem(name) == [name |-> name, isArray |-> FALSE, items |-> <<>>]

FolderItem(name, items) == [name |-> name, isArray |-> TRUE, items |-> items]

(* convertNode(node, name): the string name || '' for a node without       *)
(* entries, the array of the children otherwise; name "" is no name        *)
RECURSIVE convertNode(_, _)
convertNode(node, name) ==
    IF Len(node) = 0 THEN [isArray |-> FALSE, items |-> <<FileItem(name)>>]
    ELSE [isArray |-> TRUE,
          items |-> [i \in 1..Len(node) |->
                       IF node[i].isNull THEN FileItem(node[i].key)
                       ELSE FolderItem(node[i].key,
                                       convertNode(node[i].node, "").items)]]

convertFilesToTreeItems(files) ==
    convertNode(BuildTree(<<>>, sortedPaths(files)), "").items

(* tree-view.tsx Tree: the paths of the files it renders, in order; an     *)
(* item is a file when it is a string or an array of its name alone        *)
RECURSIVE TreeFiles(_, _)
TreeFiles(items, parentPath) ==
    IF items = <<>> THEN <<>>
    ELSE LET item == Head(items)
             currentPath == Append(parentPath, item.name)
         IN  (IF item.items = <<>> THEN <<currentPath>>
              ELSE TreeFiles(item.items, currentPath))
             \o TreeFiles(Tail(items), parentPath)

(* file-explorer.tsx: treeData = convertFilesToTreeItems(files) *)
FileExplorer ==
    /\ ~explorer.converted
    /\ explorer' = [explorer EXCEPT !.converted = TRUE,
                                    !.items = convertFilesToTreeItems(explorer.files)]
    /\ UNCHANGED <<server, ui>>

InitTree ==
    /\ projects = {}
    /\ messages = <<>>
    /\ fragments = {}
    /\ now = 1
    /\ usage = [u \in Users |-> 0]
    /\ tier = [u \in Users |-> IF u = "u1" THEN "pro" ELSE "free"]
    /\ call = [c \in Calls |-> IdleCall]
    /\ turn = [c \in Calls |-> IdleTurn]
    /\ ui = IdleForm
    /\ \E fs \in FileMaps : explorer = [ClosedExplorer EXCEPT !.files = fs]

NextTree == FileExplorer

SpecTree == InitTree /\ [][NextTree]_vars

(* ---- the claims ---- *)
Ids == 1..Len(messages)

AssistantOf(t) ==
    {i \in Ids : messages[i].role = "ASSISTANT" /\ messages[i].turn = t}

(* a step is turn t's save-result *)
Saves(t) == turn[t].pc = "save-result" /\ turn'[t].pc = "done"

(* the Message a step has just inserted, and its Fragments *)
Inserted == messages'[Len(messages')]

InsertedFragments == {f \in fragments' : f.messageId = Len(messages')}

(* C1: every accepted turn (its code-agent/run event was sent) persists    *)
(* exactly one ASSISTANT Message, never two and, once the run has ended,   *)
(* never zero, and that Message has a Fragment iff its type is RESULT.     *)
C1_ExactlyOneOutcome ==
    \A t \in Calls :
        /\ Cardinality(AssistantOf(t)) <= 1
        /\ turn[t].pc \in {"done", "failed"} => Cardinality(AssistantOf(t)) = 1
        /\ \A i \in AssistantOf(t) :
              FragmentOf(i) # {} <=> messages[i].type = "RESULT"

(* C2: save-result persists a RESULT Message with a Fragment iff the       *)
(* state holds a non-empty summary and the working FileMap has a path, and *)
(* an ERROR Message without a Fragment in every other case.                *)
C2_Classification ==
    [][\A t \in Calls : Saves(t) =>
          LET success == turn[t].summary # <<>> /\ DOMAIN turn[t].files # {}
          IN  /\ Inserted.role = "ASSISTANT"
              /\ Inserted.turn = t
              /\ success => Inserted.type = "RESULT" /\ InsertedFragments # {}
              /\ ~success => Inserted.type = "ERROR" /\ InsertedFragments = {}]_vars

C2_Witness ==
    /\ \E i \in Ids : /\ messages[i].turn >= 1
                      /\ messages[i].role = "ASSISTANT"
                      /\ messages[i].type = "RESULT"
                      /\ FragmentOf(i) # {}
    /\ \E i \in Ids : /\ messages[i].turn >= 1
                      /\ messages[i].role = "ASSISTANT"
                      /\ messages[i].type = "ERROR"

ErrorOnly(p) ==
    \A i \in MessageIds(p) :
        messages[i].role = "ASSISTANT" => messages[i].type = "ERROR"

C4_SnapshotPurity ==
    /\ [](\A p \in ProjectIds : ErrorOnly(p) => getExistingFiles(p) = {EmptyMap})
    /\ [][\A t \in Calls :
            (Saves(t) /\ Inserted.type = "ERROR") =>
               \A p \in ProjectIds : getExistingFiles(p)' = getExistingFiles(p)]_vars

C4_Witness ==
    \E p \in ProjectIds :
        /\ \E i \in MessageIds(p) : messages[i].type = "ERROR" /\ messages[i].turn >= 1
        /\ getExistingFiles(p) # {EmptyMap}

(* C6: a call whose consumeCredits was rejected for the quota fails with   *)
(* TOO_MANY_REQUESTS, sends no code-agent/run event and gets no ASSISTANT  *)
(* Message; no event is sent by a call whose consumeCredits did not        *)
(* succeed before.                                                         *)
C6_Gating ==
    /\ [](\A c \in Calls :
            /\ call[c].outcome = "TOO_MANY_REQUESTS" =>
                  /\ ~call[c].consumed
                  /\ turn[c].pc = "none"
                  /\ AssistantOf(c) = {}
            /\ turn[c].pc # "none" => call[c].consumed)
    /\ [][\A c \in Calls :
            (/\ call[c].pc = "gate" /\ call'[c] # call[c]
             /\ usage' # usage /\ Rejected(call[c].user)) =>
               call'[c].pc = "returned" /\ call'[c].outcome = "TOO_MANY_REQUESTS"]_vars

C6_Witness ==
    \E c, d \in Calls :
        /\ call[c].outcome = "TOO_MANY_REQUESTS"
        /\ call[d].user = call[c].user
        /\ turn[d].pc = "done"

(* C7: a Fragment saved by a turn that started from an earlier Fragment    *)
(* (the one its get-existing-files step found) holds every path of the     *)
(* earlier Fragment, and every path the turn did not write through         *)
(* createOrUpdateFiles with the content stored in the earlier Fragment.    *)
C7_Frame ==
    \A f \in fragments : f.base # 0 =>
        \A e \in FragmentOf(f.base) :
            /\ DOMAIN e.files \subseteq DOMAIN f.files
            /\ \A p \in (DOMAIN e.files) \ f.written : f.files[p] = e.files[p]

C7_Witness ==
    \E f \in fragments : \E e \in FragmentOf(f.base) :
        /\ f.written # {}
        /\ (DOMAIN e.files) \ f.written # {}
        /\ (DOMAIN e.files) \cap f.written # {}

(* C8: the RESULT Message of a turn and its Fragment appear in one step:   *)
(* every step inserts a Fragment for exactly the ASSISTANT RESULT Messages *)
(* it inserts, every Fragment found by getExistingFiles has its Message,   *)
(* and every answer of messages.getMany shows an ASSISTANT RESULT Message  *)
(* with its Fragment.                                                      *)
C8_Atomic ==
    /\ [][{i \in (1..Len(messages')) \ Ids :
              messages'[i].role = "ASSISTANT" /\ messages'[i].type = "RESULT"}
          = {f.messageId : f \in fragments' \ fragments}]_vars
    /\ [](\A f \in fragments :
            /\ f.messageId \in Ids
            /\ messages[f.messageId].role = "ASSISTANT"
            /\ messages[f.messageId].type = "RESULT")
    /\ [](\A u \in Users, p \in ProjectIds : \A rows \in getMany(u, p) :
            \A k \in 1..Len(rows) :
               (rows[k].role = "ASSISTANT" /\ rows[k].type = "RESULT")
                  => rows[k].fragment)

C8_Witness ==
    \E p \in ProjectIds : \E rows \in getMany(Owner(p), p) :
        \E k \in 1..Len(rows) :
            /\ messages[rows[k].id].turn >= 1
            /\ rows[k].role = "ASSISTANT"
            /\ rows[k].type = "RESULT"
            /\ rows[k].fragment
            /\ \E t \in Calls : turn[t].projectId = p /\ turn[t].pc = "network"

(* C9, as claimed: every Message, whatever its role, has a Fragment iff    *)
(* its type is RESULT (stated for the Messages the calls and runs insert). *)
C9_Original ==
    \A i \in Ids : messages[i].turn >= 1 =>
        (FragmentOf(i) # {} <=> messages[i].type = "RESULT")

(* C9, amended: every ASSISTANT Message has a Fragment iff its type is     *)
(* RESULT, no Message of type ERROR has a Fragment, and every USER Message *)
(* has type RESULT and no Fragment.                                        *)
C9_Amended ==
    \A i \in Ids :
        /\ messages[i].role = "ASSISTANT" =>
              (Cardinality(FragmentOf(i)) = 1 <=> messages[i].type = "RESULT")
        /\ messages[i].type = "ERROR" => FragmentOf(i) = {}
        /\ messages[i].role = "USER" =>
              messages[i].type = "RESULT" /\ FragmentOf(i) = {}

C9_Witness ==
    /\ \E i \in Ids : /\ messages[i].turn >= 1
                      /\ messages[i].role = "USER"
                      /\ messages[i].type = "RESULT"
                      /\ FragmentOf(i) = {}
    /\ \E i \in Ids : messages[i].turn >= 1 /\ messages[i].type = "ERROR"

(* C10: within a project the createdAt of the Messages is strictly         *)
(* increasing in insertion order, and get-previous-messages and            *)
(* messages.getMany return the Messages in insertion order.                *)
Increasing(s) == \A j, k \in 1..Len(s) : j < k => s[j] < s[k]

C10_MonotonicHistory ==
    /\ \A p \in ProjectIds : \A i, j \in MessageIds(p) :
          i < j => messages[i].createdAt < messages[j].createdAt
    /\ \A p \in ProjectIds : \A rows \in getMany(Owner(p), p) :
          /\ Len(rows) = Cardinality(MessageIds(p))
          /\ Increasing([k \in 1..Len(rows) |-> rows[k].id])
    /\ \A t \in Calls : Increasing(turn[t].history)

C12_SeededExactly ==
    [][\A t \in Calls :
          (turn[t].pc = "get-sandbox-id" /\ turn'[t].pc = "get-previous-messages") =>
             turn'[t].sandbox \in getExistingFiles(turn[t].projectId)]_vars

(* C13: of two RESULT Messages that concurrent turns of one project saved   *)
(* (both turns started from the same Fragment, so neither saw the other),  *)
(* the one committed later comes after the other in every answer of        *)
(* messages.getMany, and once it is the project's last commit              *)
(* getExistingFiles returns the files of its Fragment.                     *)
Position(rows, i) == CHOOSE k \in 1..Len(rows) : rows[k].id = i

C13_LaterCommitWins ==
    \A f, g \in fragments :
        (/\ f.messageId < g.messageId
         /\ messages[f.messageId].turn >= 1
         /\ messages[f.messageId].projectId = messages[g.messageId].projectId
         /\ f.base = g.base) =>
           LET p == messages[g.messageId].projectId
           IN  /\ \A rows \in getMany(Owner(p), p) :
                      Position(rows, f.messageId) < Position(rows, g.messageId)
               /\ (\A h \in ProjectFragments(p) : h.messageId <= g.messageId)
                      => getExistingFiles(p) = {g.files}

(* C14: a run that ends because its sandbox could not be created           *)
(* (get-sandbox-id) or connected to (get-sandbox-url) persists, with the    *)
(* step that ends it, an ASSISTANT Message of type ERROR with the fixed     *)
(* body and no Fragment.                                                   *)
C14_SandboxFailureIsError ==
    [][\A t \in Calls :
          (turn[t].pc \in {"get-sandbox-id", "get-sandbox-url"}
             /\ turn'[t].pc = "failed") =>
               /\ Len(messages') = Len(messages) + 1
               /\ Inserted.turn = t
               /\ Inserted.role = "ASSISTANT"
               /\ Inserted.type = "ERROR"
               /\ Inserted.content = ErrorBody
               /\ InsertedFragments = {}]_vars

(* C15: a run with a summary and a non-empty working FileMap does not end  *)
(* at the title and response generation calls: it goes on to save-result.  *)
C15_GenerationFailureTolerated ==
    [][\A t \in Calls :
          (/\ turn[t].pc = "generate"
           /\ turn[t].summary # <<>>
           /\ DOMAIN turn[t].files # {}) => turn'[t].pc # "failed"]_vars

C18_UserMessageBeforeGating ==
    \A c \in Calls : call[c].outcome = "TOO_MANY_REQUESTS" =>
        \E i \in Ids : messages[i].turn = c /\ messages[i].role = "USER"

(* C19: no step lowers a user's consumed-credit count, and no step of a    *)
(* codeAgent run (its save-result with a RESULT or an ERROR Message, or    *)
(* its failure) changes it.                                                *)
C19_NoRefund ==
    /\ [][\A u \in Users : usage'[u] >= usage[u]]_vars
    /\ [][(\E t \in Calls : turn[t].pc # "none" /\ turn'[t] # turn[t])
             => usage' = usage]_vars

C19_Witness ==
    /\ \E c \in Calls : /\ call[c].consumed
                         /\ turn[c].pc = "failed"
                         /\ usage[call[c].user] >= GENERATION_COST
    /\ \E c \in Calls : /\ call[c].consumed
                         /\ turn[c].pc = "done"
                         /\ \E i \in AssistantOf(c) : messages[i].type = "ERROR"

(* C20: a consumeCredits call succeeds exactly when the user's count,      *)
(* raised by the cost of 1, does not exceed the quota of the tier the user *)
(* has at the time of the call: 1 on the free tier, 100 on the pro tier;   *)
(* so a user with 1 credit consumed who became pro is served, and a user   *)
(* with more than 1 credit consumed who became free is denied.             *)
Quota(t) == IF t = "pro" THEN 100 ELSE 1

C20_QuotaAtCallTime ==
    /\ [][\A c \in Calls :
            (call[c].pc = "gate" /\ call'[c] # call[c] /\ usage' # usage) =>
               LET u == call[c].user
               IN  /\ usage'[u] = usage[u] + 1
                   /\ call'[c].plan = tier[u]
                   /\ call'[c].consumed <=> usage'[u] <= Quota(tier[u])
                   /\ ~call'[c].consumed <=>
                         call'[c].outcome = "TOO_MANY_REQUESTS"]_vars
    /\ [](\A c \in Calls : call[c].consumed =>
            usage[call[c].user] >= 1 /\ call[c].plan \in Tiers)
    /\ [](\A c, d \in Calls :
            (/\ c # d /\ call[c].user = call[d].user
             /\ call[c].consumed /\ call[d].consumed) =>
               call[c].plan = "pro" \/ call[d].plan = "pro")

C20_Witness ==
    \E c, d \in Calls :
        /\ call[c].user = call[d].user
        /\ call[c].plan = "free" /\ call[c].consumed
        /\ call[d].plan = "pro" /\ call[d].consumed
        /\ usage[call[c].user] = 2
        /\ tier[call[c].user] = "free"

(* C21: no text a successful turn persisted holds a control character:    *)
(* not the body of its Message, nor the title, a path or a content of its  *)
(* Fragment.                                                               *)
HasControl(s) == \E k \in 1..Len(s) : s[k] \in ControlChars

C21_NoControlCharacters ==
    \A f \in fragments :
        /\ ~HasControl(messages[f.messageId].content)
        /\ ~HasControl(f.title)
        /\ \A p \in DOMAIN f.files : ~HasControl(p) /\ ~HasControl(f.files[p])

(* C22: messages.getMany answers a user only with Messages of projects    *)
(* the user owns; messages.create on a project that does not exist or      *)
(* belongs to another user returns NOT_FOUND, and a call without a user     *)
(* returns UNAUTHORIZED, in both cases without calling the limiter,         *)
(* creating a Message or sending an event.                                  *)
C22_OwnerScoped ==
    /\ [](\A u \in Users, p \in ProjectIds : \A rows \in getMany(u, p) :
            \A k \in 1..Len(rows) : Owner(messages[rows[k].id].projectId) = u)
    /\ [][\A c \in Calls :
            (/\ call[c].pc = "find" /\ call'[c] # call[c]
             /\ \/ call[c].projectId \notin ProjectIds
                \/ Owner(call[c].projectId) # call[c].user) =>
               /\ call'[c].outcome = "NOT_FOUND"
               /\ UNCHANGED <<projects, messages, fragments, usage, turn>>]_vars
    /\ [](\A c \in Calls : call[c].outcome \in {"NOT_FOUND", "UNAUTHORIZED"} =>
            /\ call[c].pc = "returned"
            /\ call[c].plan = "none" /\ ~call[c].consumed
            /\ turn[c].pc = "none"
            /\ \A i \in Ids : messages[i].turn # c)
    /\ [](\A c \in Calls : call[c].user = NoUser /\ call[c].pc # "idle" =>
            call[c].outcome = "UNAUTHORIZED")

C22_Witness ==
    \E c, d \in Calls :
        /\ call[c].outcome = "NOT_FOUND"
        /\ call[c].projectId \in ProjectIds
        /\ Owner(call[c].projectId) # call[c].user
        /\ getMany(Owner(call[c].projectId), call[c].projectId) # {<<>>}
        /\ getMany(call[c].user, call[c].projectId) = {<<>>}
        /\ call[d].outcome = "UNAUTHORIZED"

(* C23: getExistingFiles changes no record, and its answer is determined   *)
(* by the store: in every state it can return one FileMap only, so two     *)
(* calls without a write between them return the same FileMap.             *)
C23_ReadOnlyIdempotent ==
    /\ [][\A t \in Calls :
            (turn[t].pc = "get-existing-files" /\ turn'[t].pc = "network") =>
               UNCHANGED <<projects, messages, fragments, usage>>]_vars
    /\ [](\A p \in ProjectIds : Cardinality(getExistingFiles(p)) = 1)

(* C24: during the agent loop the working FileMap is the FileMap the turn  *)
(* started from overlaid, in call order, with exactly the files whose      *)
(* sandbox write succeeded, that is, it equals the content of the sandbox, *)
(* which was seeded with that FileMap and received exactly those writes.   *)
C24_MirrorsSuccessfulWrites ==
    \A t \in Calls : turn[t].pc = "network" => turn[t].files = turn[t].sandbox

(* C25: the form never holds more than maxImages images. *)
C25_AtMostMaxImages == ui.uploadedImages <= maxImages

(* C26: for every file map, the empty one and one with a path that is a    *)
(* directory prefix of another included, the leaves of the tree that       *)
(* convertFilesToTreeItems returns, read with their enclosing folders, are *)
(* exactly the input paths, each once; and {"src/Button.tsx", "README.md"} *)
(* gives [["src", "Button.tsx"], "README.md"].                             *)
C26_LeavesAreThePaths ==
    explorer.converted =>
        LET leaves == TreeFiles(explorer.items, <<>>)
        IN  /\ {leaves[i] : i \in 1..Len(leaves)} = explorer.files
            /\ \A i, j \in 1..Len(leaves) : leaves[i] = leaves[j] => i = j
            /\ explorer.files = {<<"src", "Button.tsx">>, <<"README.md">>}
                 => explorer.items = <<FolderItem("src", <<FileItem("Button.tsx")>>),
                                       FileItem("README.md")>>

(* C27: within one turn the FileMap get-sandbox-id wrote into the new      *)
(* sandbox and the FileMap get-existing-files made the initial working     *)
(* FileMap are the same map, also when another turn of the project commits *)
(* its save-result between the two reads: every file the sandbox was       *)
(* seeded with is in the initial working FileMap with the same content.    *)
C27_SameMapInBothReads ==
    \A t \in Calls :
        turn[t].pc = "network" =>
            \A p \in DOMAIN turn[t].sandbox :
                /\ p \in DOMAIN turn[t].files
                /\ turn[t].files[p] = turn[t].sandbox[p]

(* C28: a successful turn stores, for every path of its working FileMap    *)
(* whose content has no control characters, the content that was written   *)
(* to the sandbox; and sanitizeContent applied to what it stored changes   *)
(* nothing.                                                                *)
C28_StoredAsWritten ==
    [][\A t \in Calls :
          (turn[t].pc = "save-result" /\ turn'[t].pc = "done") =>
             \A f \in fragments' \ fragments :
             \A p \in DOMAIN turn[t].files :
                 /\ ~HasControl(turn[t].files[p]) => f.files[p] = turn[t].files[p]
                 /\ sanitizeContent(f.files[p]) = f.files[p]]_vars

(* C29: the effects of messages.create after the ownership check happen    *)
(* all or none: no call ends with a credit consumed and no code-agent/run  *)
(* event sent, or with its USER Message persisted and no event sent.       *)
C29_AllOrNone ==
    \A c \in Calls :
        (call[c].pc = "returned" /\ call[c].op = "messages.create") =>
            /\ call[c].consumed => turn[c].pc # "none"
            /\ (\E i \in Ids : messages[i].turn = c /\ messages[i].role = "USER")
                  => turn[c].pc # "none"

(* C30: the input handed to the code agent holds the triggering prompt     *)
(* once, as userInput, and a history of Messages created before the turn   *)
(* was triggered only: the history that get-previous-messages loaded holds *)
(* neither the turn's own USER Message nor a Message created after it.     *)
OwnPrompt(t) ==
    CHOOSE i \in Ids : messages[i].turn = t /\ messages[i].role = "USER"

C30_HistoryBeforeTrigger ==
    \A t \in Calls :
        turn[t].pc \in {"get-existing-files", "network"} =>
            \A k \in 1..Len(turn[t].history) : turn[t].history[k] < OwnPrompt(t)

====
